---------------------------- MODULE Spec2Model ----------------------------
(***************************************************************************)
(* async-uci: a driver for chess engines that speak the UCI protocol.      *)
(*                                                                         *)
(* The model has three parties:                                            *)
(*   - the engine subprocess, which may emit any line of EngineLines at    *)
(*     any time and may exit (closing both pipes);                         *)
(*   - the background reader task (EngineState::process_stdout), which     *)
(*     reads one line at a time, decodes it with parse_uci and applies the *)
(*     event to the shared state under the matching mutex;                 *)
(*   - the facade (impl ChessEngine for Engine), driven sequentially by    *)
(*     the caller, one operation in flight at a time.                      *)
(*                                                                         *)
(* A line of engine output is modelled by the sequence of its              *)
(* whitespace-separated tokens (what split_whitespace yields).             *)
(***************************************************************************)
EXTENDS Integers, Sequences, FiniteSets, TLC

(***************************************************************************)
(* Bounds of the model                                                     *)
(***************************************************************************)
\* the engine stops advertising options once this many are stored
MaxOptions == 2

\* a counter of reads that returned end-of-stream saturates here
MaxEofReads == 2

(***************************************************************************)
(* Program constants                                                       *)
(***************************************************************************)
\* for _ in 0..10 in Engine::expect_state
RetryLimit == 10

(***************************************************************************)
(* Option<T>, Result<T> and panics                                         *)
(***************************************************************************)
None == <<>>

Some(v) == <<v>>

is_some(o) == Len(o) = 1

\* Option::unwrap_or
unwrap_or(o, d) == IF is_some(o) THEN o[1] ELSE d

Ok(v) == [kind |-> "Ok", val |-> v]

\* Err(UCIError::ParseError)
ParseError == [kind |-> "Err"]

\* the thread of control unwinds: Option::unwrap on None, index out of bounds
Panic == [kind |-> "Panic"]

(***************************************************************************)
(* str::parse::<T>() for the three types parse_line_values is used with.   *)
(* The integer numerals of the model's alphabet are listed with the value  *)
(* isize::from_str gives them; every other token fails to parse.           *)
(***************************************************************************)
Numerals ==
    ("0" :> 0) @@ ("1" :> 1) @@ ("2" :> 2) @@ ("16" :> 16) @@ ("56" :> 56)
    @@ ("59" :> 59) @@ ("227" :> 227) @@ ("1024" :> 1024)
    @@ ("56000" :> 56000) @@ ("-1" :> -1) @@ ("-27" :> -27)
    @@ ("227000" :> 227000)

FromStr(T, tok) ==
    CASE T = "isize"  -> IF tok \in DOMAIN Numerals THEN Some(Numerals[tok])
                         ELSE None
      [] T = "bool"   -> IF tok = "true" THEN Some(TRUE)
                         ELSE IF tok = "false" THEN Some(FALSE)
                         ELSE None
      [] T = "String" -> Some(tok)

\* T::default()
DefaultOf(T) ==
    CASE T = "isize"  -> 0
      [] T = "bool"   -> FALSE
      [] T = "String" -> ""

(***************************************************************************)
(* parse.rs                                                                *)
(***************************************************************************)
\* a search that finds the last token equal to word
position_last(line, word) ==
    IF \E i \in 1..Len(line) : line[i] = word
    THEN CHOOSE i \in 1..Len(line) :
            /\ line[i] = word
            /\ \A j \in (i + 1)..Len(line) : line[j] # word
    ELSE 0

\* Iterator::position: index of the first token equal to word, 0 when none
position(line, word) ==
    IF \E i \in 1..Len(line) : line[i] = word
    THEN CHOOSE i \in 1..Len(line) :
            /\ line[i] = word
            /\ \A j \in 1..(i - 1) : line[j] # word
    ELSE 0

\* the value following each word: absent when the word does not occur, the
\* default of T when the word is the last token, else the parse of the next
\* token (absent when that fails)
parse_line_values(T, line, words) ==
    [w \in words |->
        LET ix == position(line, w) IN
        IF ix = 0 THEN None
        ELSE IF ix + 1 <= Len(line) THEN FromStr(T, line[ix + 1])
        ELSE Some(DefaultOf(T))]

\* a parse_pv that reports no principal variation when no move follows "pv"
parse_pv_nonempty(line) ==
    LET ix == position(line, "pv") IN
    IF ix = 0 \/ ix = Len(line) THEN None
    ELSE Some(SubSeq(line, ix + 1, Len(line)))

\* all the tokens after the first "pv"
parse_pv(line) ==
    LET ix == position(line, "pv") IN
    IF ix = 0 THEN None ELSE Some(SubSeq(line, ix + 1, Len(line)))

InfoWords == {"cp", "depth", "nodes", "seldepth", "mate", "time", "multipv"}

parse_info_line(line) ==
    LET values == parse_line_values("isize", line, InfoWords) IN
    Ok([event    |-> "Info",
        cp       |-> values["cp"],
        mate     |-> values["mate"],
        depth    |-> values["depth"],
        nodes    |-> values["nodes"],
        time     |-> values["time"],
        multipv  |-> values["multipv"],
        seldepth |-> values["seldepth"],
        pv       |-> parse_pv(line)])

new_check(line) ==
    LET values == parse_line_values("bool", line, {"default"}) IN
    IF ~is_some(values["default"]) THEN Panic
    ELSE Ok([variant |-> "Check", default |-> values["default"][1]])

new_spin(line) ==
    LET values == parse_line_values("isize", line, {"default", "min", "max"}) IN
    IF \E w \in {"default", "min", "max"} : ~is_some(values[w]) THEN Panic
    ELSE Ok([variant |-> "Spin",
             default |-> values["default"][1],
             min     |-> values["min"][1],
             max     |-> values["max"][1]])

\* the tokens that follow a "var", in line order
RECURSIVE combo_vars(_, _)
combo_vars(line, ix) ==
    IF ix > Len(line) THEN <<>>
    ELSE IF line[ix] = "var" THEN <<line[ix + 1]>> \o combo_vars(line, ix + 1)
    ELSE combo_vars(line, ix + 1)

new_combo(line) ==
    LET values == parse_line_values("String", line, {"default"}) IN
    \* line[ix + 1] is out of bounds when the last token is "var"
    IF Len(line) > 0 /\ line[Len(line)] = "var" THEN Panic
    ELSE IF ~is_some(values["default"]) THEN Panic
    ELSE Ok([variant |-> "Combo",
             default |-> values["default"][1],
             options |-> combo_vars(line, 1)])

new_button == Ok([variant |-> "Button"])

new_string(line) ==
    LET values == parse_line_values("String", line, {"default"}) IN
    IF ~is_some(values["default"]) THEN Panic
    ELSE Ok([variant |-> "String", default |-> values["default"][1]])

OptionType_new(opt_type, line) ==
    CASE opt_type = "check"  -> new_check(line)
      [] opt_type = "spin"   -> new_spin(line)
      [] opt_type = "combo"  -> new_combo(line)
      [] opt_type = "button" -> new_button
      [] opt_type = "string" -> new_string(line)
      [] OTHER               -> ParseError

parse_option_line(line) ==
    LET values == parse_line_values("String", line, {"name", "type"}) IN
    IF ~is_some(values["name"]) THEN Panic
    ELSE IF ~is_some(values["type"]) THEN Panic
    ELSE LET t == OptionType_new(values["type"][1], line) IN
         IF t.kind = "Ok"
         THEN Ok([event    |-> "Option",
                  name     |-> values["name"][1],
                  opt_type |-> t.val])
         ELSE t

parse_uci(line) ==
    LET command == IF Len(line) > 0 THEN line[1] ELSE "" IN
    CASE command = "info"    -> parse_info_line(line)
      [] command = "uciok"   -> Ok([event |-> "UciOk"])
      [] command = "readyok" -> Ok([event |-> "ReadyOk"])
      [] command = "option"  -> parse_option_line(line)
      [] OTHER               -> ParseError


(***************************************************************************)
(* The lines the engine may emit: the two acknowledgements, info lines,    *)
(* well-formed and malformed option lines, and lines with an unknown       *)
(* leading token.                                                          *)
(***************************************************************************)
InfoLines ==
    { <<"info", "depth", "1", "seldepth", "1", "multipv", "1", "score", "cp",
        "59", "nodes", "56", "nps", "56000", "hashfull", "0", "tbhits", "0",
        "time", "1", "pv", "d6f4", "e3f4">>,
      <<"info", "depth", "2", "nodes", "227">> }

GoodOptionLines ==
    { <<"option", "name", "Hash", "type", "spin", "default", "16", "min", "1",
        "max", "1024">>,
      <<"option", "name", "Ponder", "type", "check", "default", "false">> }

BadOptionLines ==
    { <<"option", "name", "Hash", "type", "spin", "min", "1", "max", "1024">>,
      <<"option", "name", "Hash", "type", "spin", "default", "x", "min", "1",
        "max", "1024">>,
      <<"option", "name", "Style", "type", "combo", "default", "Normal",
        "var">>,
      <<"option", "type", "button">>,
      <<"option", "name", "Hash", "spin">>,
      <<"option", "name", "Hash", "type", "slider">> }

UnknownLines ==
    { <<>>, <<"bestmove", "e2e4">>, <<"id", "name", "Fakefish">> }

EngineLines ==
    {<<"uciok">>, <<"readyok">>} \cup InfoLines \cup GoodOptionLines
    \cup BadOptionLines \cup UnknownLines

\* parse_uci of every line of the engine
Parsed == [line \in EngineLines |-> parse_uci(line)]

\* the lines that decode to the given event
LinesOf(event) ==
    {line \in EngineLines :
        Parsed[line].kind = "Ok" /\ Parsed[line].val.event = event}

UciOkLines == LinesOf("UciOk")

ReadyOkLines == LinesOf("ReadyOk")

InfoEventLines == LinesOf("Info")

OptionEventLines == LinesOf("Option")

ErrLines == {line \in EngineLines : Parsed[line].kind = "Err"}

PanicLines == {line \in EngineLines : Parsed[line].kind = "Panic"}

\* arguments the caller passes to the facade
Plies == {1, 2}

Fens == {"8/8/8/8/8/8/8/8"}

OptionNames == {"Hash"}

OptionValues == {"16"}

\* format!("{}", n) for the arguments of the model
fmt_usize(n) == CASE n = 1 -> "1" [] n = 2 -> "2" [] n = 3 -> "3"

(***************************************************************************)
(* engine.rs: the shared state                                             *)
(***************************************************************************)
EngineStateEnum == {"Uninitialized", "Initialized", "Ready", "Thinking"}

\* Evaluation::default()
Evaluation_default ==
    [score |-> 0, mate |-> 0, depth |-> 0, nodes |-> 0, seldepth |-> 0,
     multipv |-> 0, pv |-> <<>>, time |-> 0]

\* a merge that starts every time from the default Evaluation
merge_replacing(prev, info) ==
    LET prev_ev == Evaluation_default IN
    [score    |-> unwrap_or(info.cp, prev_ev.score),
     mate     |-> unwrap_or(info.mate, prev_ev.mate),
     depth    |-> unwrap_or(info.depth, prev_ev.depth),
     nodes    |-> unwrap_or(info.nodes, prev_ev.nodes),
     seldepth |-> unwrap_or(info.seldepth, prev_ev.seldepth),
     multipv  |-> unwrap_or(info.multipv, prev_ev.multipv),
     pv       |-> unwrap_or(info.pv, prev_ev.pv),
     time     |-> unwrap_or(info.time, prev_ev.time)]

\* the Evaluation built in the Info arm of process_stdout
merge(prev, info) ==
    LET prev_ev == unwrap_or(prev, Evaluation_default) IN
    [score    |-> unwrap_or(info.cp, prev_ev.score),
     mate     |-> unwrap_or(info.mate, prev_ev.mate),
     depth    |-> unwrap_or(info.depth, prev_ev.depth),
     nodes    |-> unwrap_or(info.nodes, prev_ev.nodes),
     seldepth |-> unwrap_or(info.seldepth, prev_ev.seldepth),
     multipv  |-> unwrap_or(info.multipv, prev_ev.multipv),
     pv       |-> unwrap_or(info.pv, prev_ev.pv),
     time     |-> unwrap_or(info.time, prev_ev.time)]

\* what the memory of the evaluation holds when the store of new_ev over
\* prev has written the first fields of the struct and not yet the others
half_stored(prev, new_ev) ==
    LET prev_ev == unwrap_or(prev, Evaluation_default) IN
    [new_ev EXCEPT !.seldepth = prev_ev.seldepth,
                   !.multipv  = prev_ev.multipv,
                   !.pv       = prev_ev.pv,
                   !.time     = prev_ev.time]

VARIABLES
    state,       \* EngineState.state: the lifecycle phase
    evaluation,  \* EngineState.evaluation: Option<Evaluation>
    options,     \* EngineState.options: Vec<EngineOption>
    lock,        \* holder of each of the three mutexes
    engine,      \* "alive", or "exited" once the subprocess closed its pipes
    rstatus,     \* the reader task: "running", "merging", "panicked"
    rcause,      \* why the reader panicked: "none", "parse", "read"
    rpending,    \* the Evaluation the reader is storing while "merging"
    eofReads,    \* reads that returned end-of-stream (saturating)
    fop,         \* the facade operation in flight, or the last one
    fpc,         \* position of the caller inside that operation
    exp_state,   \* argument of expect_state
    polls,       \* calls of _expect_state made by the current expect_state
    result,      \* "none" in flight, else "ok", "timeout", "write_error"
    value,       \* what get_evaluation or get_options returned
    written,     \* the command lines written to stdin by the operation
    ack,         \* summary of the uciok/readyok lines applied since the
                 \* last start_uci began (see ack_uciok, ack_readyok)
    everReady,   \* the phase has been Ready
    whole,       \* the evaluation as of the last completed store
    gotSnap,     \* `whole` at the time of the last get_evaluation
    decode       \* a decode step on its own: the line given to parse_uci,
                 \* its outcome, and the snapshot an Info event is merged
                 \* into with the result (see DecodeSpec)

shared == <<state, evaluation, options>>

rvars == <<rstatus, rcause, rpending, eofReads>>

fvars == <<fop, fpc, exp_state, polls, result, value, written>>

hvars == <<ack, everReady, whole, gotSnap>>

mvars == <<state, evaluation, options, lock, engine, rstatus, rcause,
           rpending, eofReads, fop, fpc, exp_state, polls, result, value,
           written, ack, everReady, whole, gotSnap>>

vars == <<state, evaluation, options, lock, engine, rstatus, rcause, rpending,
          eofReads, fop, fpc, exp_state, polls, result, value, written,
          ack, everReady, whole, gotSnap, decode>>

Mutexes == {"state", "evaluation", "options"}

\* no decode step on its own is going on
NoDecode ==
    [input |-> <<>>, output |-> [kind |-> "Idle"], before |-> None,
     after |-> None]

\* EngineState::new and Engine::new
Engine_new ==
    /\ state = "Uninitialized"
    /\ evaluation = None
    /\ options = <<>>
    /\ lock = [m \in Mutexes |-> "none"]
    /\ engine = "alive"
    /\ rstatus = "running"
    /\ rcause = "none"
    /\ rpending = None
    /\ eofReads = 0
    /\ fop = "none"
    /\ fpc = "idle"
    /\ exp_state = "Uninitialized"
    /\ polls = 0
    /\ result = "none"
    /\ value = None
    /\ written = <<>>
    /\ ack = "none"
    /\ everReady = FALSE
    /\ whole = None
    /\ gotSnap = None

Init ==
    /\ decode = NoDecode
    /\ Engine_new

(***************************************************************************)
(* std::sync::Mutex                                                        *)
(***************************************************************************)
\* a slip: the value is reached without taking its mutex
lock_skipped(m) == TRUE

\* Mutex::lock returns only when nobody holds the mutex
lock_free(m) == lock[m] = "none"

acquired(m, who) == [lock EXCEPT ![m] = who]

\* a slip: the guard outlives the call that took it
guard_kept(m) == lock

\* the MutexGuard goes out of scope
dropped(m) == [lock EXCEPT ![m] = "none"]

(***************************************************************************)
(* The engine subprocess                                                   *)
(***************************************************************************)
\* the subprocess exits: its end of both pipes is closed
EngineExit ==
    /\ engine = "alive"
    /\ engine' = "exited"
    /\ UNCHANGED <<decode, shared, lock, rvars, fvars, hvars>>

(***************************************************************************)
(* EngineState::process_stdout, one action per outcome of an iteration     *)
(***************************************************************************)
\* a poll of the phase is still due in the wait the facade is in
poll_due ==
    \/ fpc \in {"wait_lock", "send_isready"}
    \/ fpc = "wait_sleep" /\ polls < RetryLimit

(***************************************************************************)
(* History of the acknowledgements applied since the last start_uci began  *)
(* (for a new_game: "none", or "readyok" once a readyok was applied after  *)
(* its set_state):                                                         *)
(*   "none"          no uciok and no readyok                               *)
(*   "uciok"         one uciok, applied while a poll of the first wait was *)
(*                   still due                                             *)
(*   "uciok_readyok" that, then one readyok, applied while a poll of the   *)
(*                   wait then in progress was still due                   *)
(*   "only_uciok"    any other number or timing of uciok, no readyok       *)
(*   "no_uciok"      one readyok or more, no uciok                         *)
(*   "other"         anything else                                         *)
(***************************************************************************)
ack_uciok ==
    IF fop # "start_uci" THEN ack
    ELSE IF ack = "none" /\ exp_state = "Initialized" /\ poll_due THEN "uciok"
    ELSE IF ack \in {"none", "uciok", "only_uciok"} THEN "only_uciok"
    ELSE "other"

ack_readyok ==
    IF fop = "new_game" THEN (IF fpc = "set_state" THEN ack ELSE "readyok")
    ELSE IF fop # "start_uci" THEN ack
    ELSE IF ack = "uciok" /\ poll_due THEN "uciok_readyok"
    ELSE IF ack \in {"none", "no_uciok"} THEN "no_uciok"
    ELSE "other"

\* read_line yields a line of the engine
reads ==
    /\ rstatus = "running"
    /\ engine = "alive"

\* a UciOk arm that looks at the phase: only an Uninitialized engine
\* becomes Initialized
ReaderUciOk_from_uninitialized ==
    \E line \in UciOkLines :
        /\ reads
        /\ lock_free("state")
        /\ state' = IF state = "Uninitialized" THEN "Initialized" ELSE state
        /\ ack' = ack_uciok
        /\ UNCHANGED <<decode, evaluation, options, lock, engine, rvars, fvars,
                       everReady, whole, gotSnap>>

\* Ok(UCI::UciOk) => *state = Initialized
ReaderUciOk ==
    \E line \in UciOkLines :
        /\ reads
        /\ lock_free("state")
        /\ state' = "Initialized"
        /\ ack' = ack_uciok
        /\ UNCHANGED <<decode, evaluation, options, lock, engine, rvars, fvars,
                       everReady, whole, gotSnap>>

\* Ok(UCI::ReadyOk) => *state = Ready
ReaderReadyOk ==
    \E line \in ReadyOkLines :
        /\ reads
        /\ lock_free("state")
        /\ state' = "Ready"
        /\ everReady' = TRUE
        /\ ack' = ack_readyok
        /\ UNCHANGED <<decode, evaluation, options, lock, engine, rvars, fvars,
                       whole, gotSnap>>

\* Ok(UCI::Info {..}) => the evaluation mutex is taken, the merged
\* Evaluation is built and its store over *ev begins
ReaderInfo ==
    \E line \in InfoEventLines :
        /\ reads
        /\ lock_free("evaluation")
        /\ lock' = acquired("evaluation", "reader")
        /\ rpending' = Some(merge(evaluation, Parsed[line].val))
        /\ evaluation' =
               Some(half_stored(evaluation,
                                merge(evaluation, Parsed[line].val)))
        /\ rstatus' = "merging"
        /\ UNCHANGED <<decode, state, options, engine, rcause, eofReads, fvars, hvars>>

\* the store completes and the guard is dropped at the end of the match arm
ReaderInfoStored ==
    /\ rstatus = "merging"
    /\ evaluation' = rpending
    /\ whole' = rpending
    /\ rpending' = None
    /\ rstatus' = "running"
    /\ lock' = dropped("evaluation")
    /\ UNCHANGED <<decode, state, options, engine, rcause, eofReads, fvars, ack,
                   everReady, gotSnap>>

\* an Option arm that puts the new entry first
ReaderOption_inserting_first ==
    \E line \in OptionEventLines :
        /\ reads
        /\ Len(options) < MaxOptions
        /\ lock_free("options")
        /\ options' = <<[name     |-> Parsed[line].val.name,
                         opt_type |-> Parsed[line].val.opt_type]>> \o options
        /\ UNCHANGED <<decode, state, evaluation, lock, engine, rvars, fvars, hvars>>

\* Ok(UCI::Option {..}) => options.push(..)
ReaderOption ==
    \E line \in OptionEventLines :
        /\ reads
        /\ Len(options) < MaxOptions
        /\ lock_free("options")
        /\ options' = Append(options,
                             [name     |-> Parsed[line].val.name,
                              opt_type |-> Parsed[line].val.opt_type])
        /\ UNCHANGED <<decode, state, evaluation, lock, engine, rvars, fvars, hvars>>

\* _ => continue: parse_uci returned an error, the line is skipped
ReaderSkip ==
    \E line \in ErrLines :
        /\ reads
        /\ UNCHANGED vars

\* parse_uci panicked: the task unwinds, no mutex is held at that point
ReaderParsePanic ==
    \E line \in PanicLines :
        /\ reads
        /\ rstatus' = "panicked"
        /\ rcause' = "parse"
        /\ UNCHANGED <<decode, shared, lock, engine, rpending, eofReads, fvars, hvars>>

\* read_line(..).await.unwrap() on an Err (the bytes read are not UTF-8)
ReaderReadError ==
    /\ reads
    /\ rstatus' = "panicked"
    /\ rcause' = "read"
    /\ UNCHANGED <<decode, shared, lock, engine, rpending, eofReads, fvars, hvars>>

\* the pipe is closed: read_line returns Ok(0) and leaves the string empty,
\* parse_uci("") is an error, and the loop continues with the next read
ReaderEof ==
    /\ rstatus = "running"
    /\ engine = "exited"
    /\ parse_uci(<<>>).kind = "Err"
    /\ eofReads' = IF eofReads < MaxEofReads THEN eofReads + 1 ELSE eofReads
    /\ UNCHANGED <<decode, shared, lock, engine, rstatus, rcause, rpending, fvars,
                   hvars>>

Reader ==
    \/ ReaderUciOk
    \/ ReaderReadyOk
    \/ ReaderInfo
    \/ ReaderInfoStored
    \/ ReaderOption
    \/ ReaderSkip
    \/ ReaderParsePanic
    \/ ReaderReadError
    \/ ReaderEof

(***************************************************************************)
(* impl ChessEngine for Engine: the facade, one operation at a time        *)
(***************************************************************************)
\* Engine::send_command succeeds while the engine holds its end of stdin
can_write == engine = "alive"

\* the caller enters an operation
begins(op) ==
    /\ fpc = "idle"
    /\ fop' = op
    /\ polls' = 0
    /\ ack' = "none"

\* the first send_command of an operation wrote cmd; the operation goes on
first_write(cmd, pc) ==
    /\ can_write
    /\ written' = <<cmd>>
    /\ result' = "none"
    /\ fpc' = pc
    /\ value' = None
    /\ gotSnap' = None

\* the first send_command of an operation fails: `?` returns the error
first_write_fails ==
    /\ ~can_write
    /\ written' = <<>>
    /\ result' = "write_error"
    /\ fpc' = "idle"
    /\ value' = None
    /\ gotSnap' = None

\* slips in the range of the loop: 0..9 and 0..=10
retries_left_short(n) == n < RetryLimit - 1

retries_left_long(n) == n <= RetryLimit

\* the loop `for _ in 0..10` has iterations left after n of them
retries_left(n) == n < RetryLimit

\* a slip: go and stop pass each other's new_state
new_state_of_swapped(op) ==
    CASE op = "new_game" -> "Initialized"
      [] op = "go"       -> "Initialized"
      [] op = "stop"     -> "Thinking"

\* the new_state each operation passes to set_state
new_state_of(op) ==
    CASE op = "new_game" -> "Initialized"
      [] op = "go"       -> "Thinking"
      [] op = "stop"     -> "Initialized"

\* a slip: the phase change also discards the evaluation
set_state_clearing(new_state) ==
    /\ state' = new_state
    /\ evaluation' = None
    /\ UNCHANGED options

\* what Engine::set_state stores
set_state(new_state) ==
    /\ state' = new_state
    /\ UNCHANGED <<evaluation, options>>

\* a slip: "isready" follows "uci" without the wait between them
start_uci_eager ==
    /\ begins("start_uci")
    /\ \/ first_write(<<"uci", "\n">>, "send_isready")
             /\ exp_state' = "Initialized"
       \/ first_write_fails /\ UNCHANGED exp_state
    /\ UNCHANGED <<decode, shared, lock, engine, rvars, everReady, whole>>

\* start_uci: send "uci", then expect_uciok
start_uci ==
    /\ begins("start_uci")
    /\ \/ first_write(<<"uci", "\n">>, "wait_lock") /\ exp_state' = "Initialized"
       \/ first_write_fails /\ UNCHANGED exp_state
    /\ UNCHANGED <<decode, shared, lock, engine, rvars, everReady, whole>>

\* a new_game without the set_state before "isready"
new_game_without_reset ==
    /\ begins("new_game")
    /\ \/ first_write(<<"ucinewgame", "\n">>, "send_isready")
       \/ first_write_fails
    /\ UNCHANGED <<decode, shared, lock, engine, rvars, exp_state, everReady, whole>>

\* new_game: send "ucinewgame", then set_state(Initialized)
new_game ==
    /\ begins("new_game")
    /\ \/ first_write(<<"ucinewgame", "\n">>, "set_state")
       \/ first_write_fails
    /\ UNCHANGED <<decode, shared, lock, engine, rvars, exp_state, everReady, whole>>

\* a slip: the phase is stored before the result of the write is looked at
go_storing_first(cmd) ==
    /\ begins("go")
    /\ \/ first_write(cmd, "set_state")
       \/ first_write_fails
    /\ state' = "Thinking"
    /\ UNCHANGED <<decode, evaluation, options, lock, engine, rvars, exp_state,
                   everReady, whole>>

\* the four go operations: send the command, then set_state(Thinking)
go(cmd) ==
    /\ begins("go")
    /\ \/ first_write(cmd, "set_state")
       \/ first_write_fails
    /\ UNCHANGED <<decode, shared, lock, engine, rvars, exp_state, everReady, whole>>

go_infinite == go(<<"go", "infinite", "\n">>)

go_depth == \E depth \in Plies : go(<<"go", "depth", fmt_usize(depth), "\n">>)

go_time == \E ms \in Plies : go(<<"go", "movetime", fmt_usize(ms), "\n">>)

go_mate == \E mate_in \in Plies : go(<<"go", "mate", fmt_usize(mate_in), "\n">>)

\* a stop that also discards the evaluation of the search it ends
stop_clearing ==
    /\ begins("stop")
    /\ lock_free("evaluation")
    /\ \/ first_write(<<"stop", "\n">>, "set_state")
       \/ first_write_fails
    /\ evaluation' = None
    /\ UNCHANGED <<decode, state, options, lock, engine, rvars, exp_state,
                   everReady, whole>>

\* stop: send "stop", then set_state(Initialized)
stop ==
    /\ begins("stop")
    /\ \/ first_write(<<"stop", "\n">>, "set_state")
       \/ first_write_fails
    /\ UNCHANGED <<decode, shared, lock, engine, rvars, exp_state, everReady, whole>>

\* a send followed by a wait for the phase last expected
sends_only_then_expect(op, cmd) ==
    /\ begins(op)
    /\ \/ first_write(cmd, "wait_lock")
       \/ first_write_fails
    /\ UNCHANGED <<decode, shared, lock, engine, rvars, exp_state, everReady, whole>>

\* set_position and set_option: one send_command, whose result is returned
sends_only(op, cmd) ==
    /\ begins(op)
    /\ \/ /\ can_write
          /\ written' = <<cmd>>
          /\ result' = "ok"
          /\ fpc' = "idle"
          /\ value' = None
          /\ gotSnap' = None
       \/ first_write_fails
    /\ UNCHANGED <<decode, shared, lock, engine, rvars, exp_state, everReady, whole>>

set_position ==
    \E fen \in Fens : sends_only("set_position", <<"position", "fen", fen, "\n">>)

set_option ==
    \E option \in OptionNames, v \in OptionValues :
        sends_only("set_option",
                   <<"setoption", "name", option, "value", v, "\n">>)

\* a get_evaluation that answers the default Evaluation when there is none
get_evaluation_defaulting ==
    /\ begins("get_evaluation")
    /\ lock_free("evaluation")
    /\ value' = Some(unwrap_or(evaluation, Evaluation_default))
    /\ gotSnap' = whole
    /\ result' = "ok"
    /\ written' = <<>>
    /\ UNCHANGED <<decode, shared, lock, engine, rvars, fpc, exp_state, everReady,
                   whole>>

\* get_evaluation: lock the evaluation, clone it, drop the guard
get_evaluation ==
    /\ begins("get_evaluation")
    /\ lock_free("evaluation")
    /\ value' = evaluation
    /\ gotSnap' = whole
    /\ result' = "ok"
    /\ written' = <<>>
    /\ UNCHANGED <<decode, shared, lock, engine, rvars, fpc, exp_state, everReady,
                   whole>>

\* get_options: lock the options, clone them, drop the guard
get_options ==
    /\ begins("get_options")
    /\ lock_free("options")
    /\ value' = options
    /\ gotSnap' = None
    /\ result' = "ok"
    /\ written' = <<>>
    /\ UNCHANGED <<decode, shared, lock, engine, rvars, fpc, exp_state, everReady,
                   whole>>

\* Engine::set_state called by new_game, go_* and stop
SetState ==
    /\ fpc = "set_state"
    /\ lock_free("state")
    /\ set_state(new_state_of(fop))
    /\ IF fop = "new_game"
       THEN /\ fpc' = "send_isready"
            /\ UNCHANGED result
       ELSE /\ fpc' = "idle"
            /\ result' = "ok"
    /\ UNCHANGED <<decode, lock, engine, rvars, fop, exp_state, polls, value, written,
                   hvars>>

\* a slip: the wait after "isready" is for Initialized
SendIsReady_expecting_initialized ==
    /\ fpc = "send_isready"
    /\ IF can_write
       THEN /\ written' = Append(written, <<"isready", "\n">>)
            /\ exp_state' = "Initialized"
            /\ polls' = 0
            /\ fpc' = "wait_lock"
            /\ UNCHANGED result
       ELSE /\ result' = "write_error"
            /\ fpc' = "idle"
            /\ UNCHANGED <<written, exp_state, polls>>
    /\ UNCHANGED <<decode, shared, lock, engine, rvars, fop, value, hvars>>

\* start_uci and new_game: send "isready", then expect_readyok
SendIsReady ==
    /\ fpc = "send_isready"
    /\ IF can_write
       THEN /\ written' = Append(written, <<"isready", "\n">>)
            /\ exp_state' = "Ready"
            /\ polls' = 0
            /\ fpc' = "wait_lock"
            /\ UNCHANGED result
       ELSE /\ result' = "write_error"
            /\ fpc' = "idle"
            /\ UNCHANGED <<written, exp_state, polls>>
    /\ UNCHANGED <<decode, shared, lock, engine, rvars, fop, value, hvars>>

\* _expect_state takes the state mutex
ExpectLock ==
    /\ fpc = "wait_lock"
    /\ lock_free("state")
    /\ lock' = acquired("state", "facade")
    /\ fpc' = "wait_check"
    /\ UNCHANGED <<decode, shared, engine, rvars, fop, exp_state, polls, result, value,
                   written, hvars>>

\* _expect_state compares and returns, which drops the guard; on Ok the wait
\* is over, on Err expect_state goes to sleep
ExpectCheck ==
    /\ fpc = "wait_check"
    /\ lock' = dropped("state")
    /\ polls' = polls + 1
    /\ IF exp_state = state
       THEN IF fop = "start_uci" /\ exp_state = "Initialized"
            THEN /\ fpc' = "send_isready"
                 /\ UNCHANGED result
            ELSE /\ fpc' = "idle"
                 /\ result' = "ok"
       ELSE /\ fpc' = "wait_sleep"
            /\ UNCHANGED result
    /\ UNCHANGED <<decode, shared, engine, rvars, fop, exp_state, value, written,
                   hvars>>

\* the sleep of 100 ms ends: next iteration, or bail! after the last one
ExpectWake ==
    /\ fpc = "wait_sleep"
    /\ IF retries_left(polls)
       THEN /\ fpc' = "wait_lock"
            /\ UNCHANGED result
       ELSE /\ fpc' = "idle"
            /\ result' = "timeout"
    /\ UNCHANGED <<decode, shared, lock, engine, rvars, fop, exp_state, polls, value,
                   written, hvars>>

\* a step inside an operation in flight
FacadeStep ==
    \/ SetState
    \/ SendIsReady
    \/ ExpectLock
    \/ ExpectCheck
    \/ ExpectWake

\* the caller starts an operation
FacadeCall ==
    \/ start_uci
    \/ new_game
    \/ set_position
    \/ go_infinite
    \/ go_depth
    \/ go_time
    \/ go_mate
    \/ stop
    \/ get_evaluation
    \/ get_options
    \/ set_option

Next ==
    \/ EngineExit
    \/ Reader
    \/ FacadeCall
    \/ FacadeStep

Spec == Init /\ [][Next]_vars

\* the caller's task is scheduled: a step of an operation in flight that
\* can be taken is eventually taken
FairSpec == Spec /\ WF_vars(FacadeStep)

(***************************************************************************)
(* The decode step on its own: parse_uci applied to one line, and, for an  *)
(* Info event, the merge of the event into a snapshot.  The lines are the  *)
(* engine's lines above, every info line of up to MaxInfoTokens tokens of  *)
(* InfoAlphabet after "info", the lines of the tests of parse.rs, and      *)
(* option lines put together from present, absent and malformed parts.     *)
(***************************************************************************)
MaxInfoTokens == 3

InfoAlphabet == InfoWords \cup {"pv", "nps", "59", "-27", "x", "e2e4"}

\* the sequences of at most n elements of S
RECURSIVE SeqsUpTo(_, _)
SeqsUpTo(S, n) ==
    IF n = 0 THEN {<<>>}
    ELSE LET shorter == SeqsUpTo(S, n - 1) IN
         shorter \cup {Append(q, t) : q \in shorter, t \in S}

ShortInfoLines == {<<"info">> \o q : q \in SeqsUpTo(InfoAlphabet, MaxInfoTokens)}

TestInfoLines ==
    { <<"info", "depth", "1", "seldepth", "1", "multipv", "1", "score", "cp",
        "59", "nodes", "56", "nps", "56000", "hashfull", "0", "tbhits", "0",
        "time", "1">>,
      <<"info", "depth", "2", "seldepth", "2", "multipv", "1", "score", "cp",
        "-27", "nodes", "227", "nps", "227000", "hashfull", "0", "tbhits",
        "0", "time", "1", "pv", "a8b8", "f4d6">>,
      <<"info", "depth", "1", "depth", "2">>,
      <<"info", "score", "mate", "-1", "pv">>,
      <<"info", "multipv", "1", "score", "cp", "16">>,
      <<"info", "depth", "2", "pv", "e2e4", "nodes", "56", "time">> }

NameParts ==
    {<<>>} \cup {<<"name", n>> :
                    n \in {"Hash", "min", "max", "default", "name", "type"}}

TypeParts ==
    {<<>>} \cup {<<"type", t>> :
                    t \in {"spin", "check", "combo", "button", "string",
                            "slider"}}

DefaultParts ==
    {<<>>, <<"default">>, <<"default", "16">>, <<"default", "x">>,
     <<"default", "true">>}

MinParts == {<<>>, <<"min", "1">>}

MaxParts == {<<>>, <<"max">>, <<"max", "1024">>}

VarParts == {<<>>, <<"var">>, <<"var", "a", "var", "b">>}

BuiltOptionLines ==
    {<<"option">> \o n \o t \o d \o lo \o hi \o v :
        n \in NameParts, t \in TypeParts, d \in DefaultParts,
        lo \in MinParts, hi \in MaxParts, v \in VarParts}

DecodeLines ==
    EngineLines \cup ShortInfoLines \cup TestInfoLines \cup BuiltOptionLines
    \cup {<<"Stockfish", "16">>, <<"name", "type", "spin">>}

\* a snapshot with a value of its own in every field
SampleEvaluation ==
    [score |-> 16, mate |-> 2, depth |-> 1024, nodes |-> 56000,
     seldepth |-> 56, multipv |-> 227, pv |-> <<"a8b8", "f4d6">>, time |-> 1]

Snapshots == {None, Some(SampleEvaluation)}

InitDecode ==
    /\ Engine_new
    /\ \E l \in DecodeLines, b \in Snapshots :
           decode = [input |-> l, output |-> [kind |-> "Pending"],
                     before |-> b, after |-> None]

\* parse_uci(str)
DecodeLine ==
    /\ decode.output.kind = "Pending"
    /\ decode' = [decode EXCEPT !.output = parse_uci(decode.input)]
    /\ UNCHANGED mvars

\* the Info arm of process_stdout, on the snapshot decode.before
ApplyInfo ==
    /\ decode.output.kind = "Ok"
    /\ decode.output.val.event = "Info"
    /\ decode.after = None
    /\ decode' = [decode EXCEPT
                     !.after = Some(merge(decode.before, decode.output.val))]
    /\ UNCHANGED mvars

NextDecode ==
    \/ DecodeLine
    \/ ApplyInfo

DecodeSpec == InitDecode /\ [][NextDecode]_vars

(***************************************************************************)
(* Properties                                                              *)
(***************************************************************************)
\* the last operation was start_uci and it has returned
start_uci_returned == fop = "start_uci" /\ fpc = "idle" /\ result # "none"

\* C1: whenever the reader applies one uciok and then one readyok, each
\* while a poll of the wait in progress is still due (in particular both
\* between two polls of the first wait, or both before its first poll), and
\* no write fails, start_uci returns success and the phase is Ready.
C1_StartSucceedsOnBothAcks ==
    (start_uci_returned /\ ack = "uciok_readyok" /\ result # "write_error")
        => (result = "ok" /\ state = "Ready")

\* C2: if the first wait of start_uci observed Initialized and the reader
\* has applied no readyok since the call began, start_uci has returned a
\* timeout after exactly RetryLimit polls of its second wait, and the phase
\* is Initialized at the return and for as long as no readyok is applied and
\* no other operation is called.
C2_TimeoutWithoutReadyok ==
    (/\ start_uci_returned
     /\ exp_state = "Ready"
     /\ ack \in {"none", "uciok", "only_uciok"}
     /\ result # "write_error")
        => (result = "timeout" /\ polls = RetryLimit /\ state = "Initialized")

C2_Witness ==
    /\ start_uci_returned
    /\ exp_state = "Ready"
    /\ ack = "uciok"
    /\ result = "timeout"
    /\ state = "Initialized"
    /\ rstatus = "running"
    /\ engine = "alive"

\* C3: a wait never checks the phase more than RetryLimit times, and every
\* operation in flight (start_uci and new_game with their waits included)
\* eventually returns, whatever the engine emits and whether it lives or not.
C3_WaitsTerminate ==
    /\ [](polls <= RetryLimit)
    /\ (fpc # "idle") ~> (fpc = "idle")

\* a wait gave up on an engine that exited without a word
C3_Witness ==
    /\ fop \in {"start_uci", "new_game"}
    /\ fpc = "idle"
    /\ result = "timeout"
    /\ polls = RetryLimit
    /\ engine = "exited"
    /\ ack = "none"

\* C4: no line of the engine stops the reader task: a line that fails to
\* decode is skipped and the task goes on reading.
C4_NoLineStopsReader == rcause # "parse"

\* C5: once a read has returned end-of-stream, the reader task stops and
\* reads no more.
C5_ReaderStopsAtEof == eofReads <= 1

\* C6: every change of the phase, the evaluation or the options list is a
\* step of the reader task: no step of the facade changes them.
C6_ReaderSoleWriter == [][(shared' # shared) => UNCHANGED fvars]_vars

\* C6 as amended: every change of the evaluation or of the options list is a
\* step of the reader; a change of the phase is a step of the reader or the
\* set_state of new_game, of a go operation or of stop.
C6_WritersOfSharedState ==
    [][/\ (evaluation' # evaluation \/ options' # options) => UNCHANGED fvars
       /\ (state' # state /\ ~UNCHANGED fvars)
              => (fpc = "set_state" /\ fop \in {"new_game", "go", "stop"})
      ]_vars

\* the reader has stored an evaluation and an option, a go has set Thinking
C6_Witness ==
    /\ fop = "go"
    /\ fpc = "idle"
    /\ result = "ok"
    /\ state = "Thinking"
    /\ is_some(evaluation)
    /\ Len(options) > 0

\* the phase moves backwards
reverts ==
    \/ state = "Thinking" /\ state' \in {"Initialized", "Ready"}
    \/ state = "Ready" /\ state' = "Initialized"

\* C7: a step that moves the phase backwards is the set_state of stop or of
\* new_game; the reader applying uciok or readyok never does it.
C7_RevertsOnlyByStopOrNewGame ==
    [][reverts => (/\ ~UNCHANGED fvars
                   /\ fpc = "set_state"
                   /\ fop \in {"stop", "new_game"})]_vars

\* C8: whenever the phase is Thinking, it has been Ready before.
C8_ReadyBeforeThinking == state = "Thinking" => everReady

\* C9: while expect_state sleeps between two polls the facade holds none of
\* the mutexes, so the state mutex is free and a running reader can apply
\* an acknowledgement.
C9_NoLockHeldWhileSleeping ==
    fpc = "wait_sleep"
        => (/\ \A m \in Mutexes : lock[m] # "facade"
            /\ lock_free("state")
            /\ (rstatus = "running" /\ engine = "alive")
                   => ENABLED ReaderReadyOk)

C9_Witness ==
    /\ fpc = "wait_sleep"
    /\ polls = 3
    /\ rstatus = "running"
    /\ engine = "alive"

\* C10: get_evaluation returns the evaluation as of the last completed
\* store (none before the first), never a partly stored one, and the phase
\* compared by a poll is one of the four phases.
C10_NoTornRead ==
    /\ (fop = "get_evaluation" /\ fpc = "idle") => value = gotSnap
    /\ rstatus # "merging" => evaluation = whole
    /\ state \in EngineStateEnum

\* get_evaluation returned the merge of two info lines
C10_Witness ==
    /\ fop = "get_evaluation"
    /\ fpc = "idle"
    /\ is_some(value)
    /\ value[1].depth = 2
    /\ value[1].score = 59
    /\ value[1].pv = <<"d6f4", "e3f4">>

(***************************************************************************)
(* C11..C20                                                                *)
(***************************************************************************)
\* the field of the Info event that each field of the Evaluation is taken from
EventField ==
    [score |-> "cp", mate |-> "mate", depth |-> "depth", nodes |-> "nodes",
     seldepth |-> "seldepth", multipv |-> "multipv", pv |-> "pv",
     time |-> "time"]

\* the decode step has been taken on an info line and the event was merged
merged == is_some(decode.after)

\* the snapshot the event was merged into; the default Evaluation when there
\* was none
prior == unwrap_or(decode.before, Evaluation_default)

\* C11: merging an Info event into a prior snapshot sets every field that is
\* present in the event to the event's value and leaves every field that is
\* absent from the event at the value it had in the prior snapshot.
C11_MergeLaw ==
    merged =>
        \A f \in DOMAIN EventField :
            LET in_event == decode.output.val[EventField[f]] IN
            decode.after[1][f] =
                IF is_some(in_event) THEN in_event[1] ELSE prior[f]

\* an event with only depth and nodes was merged into a snapshot whose other
\* fields all differ from the default
C11_Witness ==
    /\ merged
    /\ decode.input = <<"info", "depth", "2", "nodes", "227">>
    /\ decode.before = Some(SampleEvaluation)
    /\ decode.after =
           Some([SampleEvaluation EXCEPT !.depth = 2, !.nodes = 227])

get_evaluation_returned == fop = "get_evaluation" /\ fpc = "idle"

\* C12: get_evaluation returns none as long as the reader has completed the
\* merge of no info line and a snapshot once it has completed one; the
\* evaluation goes from none to a snapshot only in the reader's Info arm, so
\* no uciok, readyok, option or skipped line makes a snapshot appear.
C12_NoneUntilFirstInfo ==
    /\ [](get_evaluation_returned => (is_some(value) <=> is_some(whole)
                                                       /\ is_some(gotSnap)))
    /\ [](rstatus # "merging" => (is_some(evaluation) <=> is_some(whole)))
    /\ [][~is_some(evaluation) /\ is_some(evaluation')
            => rstatus = "running" /\ rstatus' = "merging"]_vars

\* uciok, readyok and an option line were applied, no info line was, and
\* get_evaluation returned none
C12_Witness ==
    /\ get_evaluation_returned
    /\ value = None
    /\ state = "Ready"
    /\ Len(options) = 1
    /\ rstatus = "running"

\* the decode step has been taken
decoded == decode.output.kind \in {"Ok", "Err", "Panic"}

tokens(line) == {line[i] : i \in 1..Len(line)}

\* word occurs in the line and the token after its first occurrence is in set
followed_by(line, word, set) ==
    \E i \in 1..(Len(line) - 1) :
        /\ line[i] = word
        /\ \A j \in 1..(i - 1) : line[j] # word
        /\ line[i + 1] \in set

\* an option line without a name or without a type, a spin without an integer
\* default, min or max, or a check without a boolean default
lacks_required_field(line) ==
    /\ Len(line) > 0
    /\ line[1] = "option"
    /\ \/ "name" \notin tokens(line)
       \/ "type" \notin tokens(line)
       \/ /\ followed_by(line, "type", {"spin"})
          /\ \E w \in {"default", "min", "max"} :
                 ~followed_by(line, w, DOMAIN Numerals)
       \/ /\ followed_by(line, "type", {"check"})
          /\ ~followed_by(line, "default", {"true", "false"})

\* C13: decoding an option line that lacks a required sub-field, or has a
\* malformed one, returns the parse error; it neither aborts nor yields an
\* Option event.
C13_MalformedOptionIsParseError ==
    decoded /\ lacks_required_field(decode.input) => decode.output = ParseError

KnownCommands == {"uciok", "readyok", "info", "option"}

unknown_command(line) == Len(line) = 0 \/ line[1] \notin KnownCommands

\* C14: the outcome of decoding a line with an unknown leading token (or the
\* empty line) is not an error and differs from the ParseError outcome of a
\* malformed known command.
C14_UnrecognizedIsNotParseError ==
    decoded /\ unknown_command(decode.input) => decode.output.kind = "Ok"
                                                /\ decode.output # ParseError

get_options_returned == fop = "get_options" /\ fpc = "idle"

\* the entry pushed for a decoded option line
EngineOption(line) ==
    [name |-> Parsed[line].val.name, opt_type |-> Parsed[line].val.opt_type]

\* C15: the options list starts empty; every change of it appends the entry
\* of one decoded option line at its end, in a step of the reader that
\* leaves the facade alone, so that nothing is removed, reordered or
\* deduplicated; get_options returns the list as it is at the call.
C15_OptionsInReadOrder ==
    /\ options = <<>>
    /\ [][options' # options
            => /\ \E line \in OptionEventLines :
                     options' = Append(options, EngineOption(line))
               /\ UNCHANGED fvars]_vars
    /\ [][fpc = "idle" /\ fop' = "get_options" /\ fvars' # fvars
            => value' = options /\ options' = options]_vars

\* the engine advertised Hash twice and get_options returned both entries
C15_Witness ==
    /\ get_options_returned
    /\ Len(value) = 2
    /\ value[1].name = "Hash"
    /\ value[2] = value[1]
    /\ value = options

info_decoded ==
    /\ decoded
    /\ Len(decode.input) > 0
    /\ decode.input[1] = "info"

\* C16: an info line without a "pv" token decodes to an absent principal
\* variation; one with "pv" decodes to a present one, holding all the tokens
\* after the first "pv" in line order, which is the empty sequence, and not
\* the absent value, when "pv" is the last token.
C16_PrincipalVariation ==
    info_decoded =>
        LET line == decode.input
            pv   == decode.output.val.pv
        IN
        /\ decode.output.kind = "Ok"
        /\ "pv" \notin tokens(line) => pv = None
        /\ "pv" \in tokens(line) =>
               /\ is_some(pv)
               /\ \E head \in {SubSeq(line, 1, i) : i \in 0..Len(line)} :
                      /\ "pv" \notin tokens(head)
                      /\ line = head \o <<"pv">> \o pv[1]
        /\ line[Len(line)] = "pv" /\ Len(line) = position(line, "pv") =>
               pv = Some(<<>>) /\ pv # None

\* "pv" is the last token and the principal variation is present and empty
C16_Witness ==
    /\ info_decoded
    /\ decode.input = <<"info", "score", "mate", "-1", "pv">>
    /\ decode.output.val.pv = Some(<<>>)
    /\ decode.output.val.mate = Some(-1)

\* the token after the first occurrence of word
follower(line, word) ==
    line[1 + CHOOSE i \in 1..(Len(line) - 1) :
                /\ line[i] = word
                /\ \A j \in 1..(i - 1) : line[j] # word]

\* the line of test_parse_info_line with its expected event
ExampleInfoLine ==
    <<"info", "depth", "1", "seldepth", "1", "multipv", "1", "score", "cp",
      "59", "nodes", "56", "nps", "56000", "hashfull", "0", "tbhits", "0",
      "time", "1", "pv", "d6f4", "e3f4">>

ExampleInfoEvent ==
    [event |-> "Info", cp |-> Some(59), mate |-> None, depth |-> Some(1),
     nodes |-> Some(56), time |-> Some(1), multipv |-> Some(1),
     seldepth |-> Some(1), pv |-> Some(<<"d6f4", "e3f4">>)]

\* C17: in the event decoded from an info line, each of cp, depth, nodes,
\* seldepth, mate, time and multipv is absent when the keyword is not a
\* token of the line, and is the integer written after the first occurrence
\* of the keyword when an integer is written there; no other token counts,
\* and "pv" is not taken for "multipv" nor "multipv" for "pv".
C17_IntegerAfterFirstKeyword ==
    info_decoded =>
        LET line == decode.input
            ev   == decode.output.val
        IN
        /\ decode.output.kind = "Ok"
        /\ \A w \in InfoWords :
              /\ w \notin tokens(line) => ev[w] = None
              /\ followed_by(line, w, DOMAIN Numerals) =>
                     ev[w] = Some(Numerals[follower(line, w)])
        /\ "pv" \notin tokens(line) => ev.pv = None
        /\ line = ExampleInfoLine => ev = ExampleInfoEvent

\* depth occurs twice, with two integers: the first one is decoded
C17_Witness ==
    /\ info_decoded
    /\ decode.input = <<"info", "depth", "1", "depth", "2">>
    /\ decode.output.val.depth = Some(1)
    /\ decode.output.val.multipv = None

\* C18: in an info line, a keyword that is followed by a token that is no
\* integer, or by no token at all, decodes to an absent field and the decode
\* succeeds; merged, that field keeps the value of the prior snapshot.
C18_UnparsableIsAbsent ==
    info_decoded =>
        /\ decode.output.kind = "Ok"
        /\ \A w \in InfoWords :
              LET line == decode.input IN
              w \in tokens(line) /\ ~followed_by(line, w, DOMAIN Numerals) =>
                  /\ decode.output.val[w] = None
                  /\ merged =>
                        \A f \in DOMAIN EventField :
                            EventField[f] = w => decode.after[1][f] = prior[f]

SpinNames == {"Hash", "min", "max", "default", "name", "type"}

SpinLine(N) ==
    <<"option", "name", N, "type", "spin", "default", "16", "min", "1",
      "max", "1024">>

\* C19: for every single-token name N, keywords included, the line `option
\* name N type spin default 16 min 1 max 1024` decodes to the Option event
\* with name N and the type Spin{default 16, min 1, max 1024}.
C19_SpinOptionForEveryName ==
    \A N \in SpinNames :
        decoded /\ decode.input = SpinLine(N) =>
            decode.output =
                Ok([event    |-> "Option",
                    name     |-> N,
                    opt_type |-> [variant |-> "Spin", default |-> 16,
                                  min |-> 1, max |-> 1024]])

SendsOnly == {"set_position", "set_option"}

\* the one line each of the two operations writes, as its tokens
LineOf(op) ==
    IF op = "set_position"
    THEN {<<"position", "fen", fen, "\n">> : fen \in Fens}
    ELSE {<<"setoption", "name", option, "value", v, "\n">> :
            option \in OptionNames, v \in OptionValues}

\* C20: a call of set_position or set_option returns in the step it is made
\* in, without a wait; it leaves the phase, the evaluation and the options
\* as they are, whatever the phase; when the write succeeds it has written
\* its one line, ended by a newline, and nothing else.
C20_SendsOneLineOnly ==
    /\ [][fpc = "idle" /\ fop' \in SendsOnly /\ fvars' # fvars
            => /\ fpc' = "idle"
               /\ shared' = shared
               /\ result' \in {"ok", "write_error"}
               /\ result' = "ok" =>
                      Len(written') = 1 /\ written'[1] \in LineOf(fop')
               /\ result' = "write_error" => written' = <<>>]_vars
    /\ [](fop \in SendsOnly => fpc = "idle" /\ polls = 0)

\* set_position returned while the engine is thinking, and the phase still
\* is Thinking
C20_Witness ==
    /\ fop = "set_position"
    /\ fpc = "idle"
    /\ result = "ok"
    /\ written = <<(<<"position", "fen", "8/8/8/8/8/8/8/8", "\n">>)>>
    /\ state = "Thinking"
    /\ is_some(evaluation)

(***************************************************************************)
(* C21..C28                                                                *)
(***************************************************************************)
\* the lines of the four go operations and of stop, as their tokens
GoLines ==
    {<<"go", "infinite", "\n">>}
    \cup {<<"go", k, fmt_usize(n), "\n">> :
            k \in {"depth", "movetime", "mate"}, n \in Plies}

CommandOf(op) == IF op = "go" THEN GoLines ELSE {<<"stop", "\n">>}

\* C21: a go operation or stop first writes its one command line, leaving
\* the phase alone; its next and last step stores Thinking (Initialized for
\* stop) and returns success, and nothing but the state mutex, which is
\* free, stands before that step: no wait on the engine.  Once the facade is
\* idle the phase changes only by an acknowledgement the reader applies.
C21_GoAndStopSetPhaseAtOnce ==
    /\ [][fpc = "idle" /\ fop' \in {"go", "stop"} /\ fvars' # fvars
                        /\ result' # "write_error"
            => /\ fpc' = "set_state"
               /\ Len(written') = 1
               /\ written'[1] \in CommandOf(fop')
               /\ state' = state]_vars
    /\ [](fop \in {"go", "stop"} /\ fpc # "idle"
            => fpc = "set_state" /\ lock_free("state") /\ polls = 0)
    /\ [][fpc = "set_state" /\ fop \in {"go", "stop"} /\ fvars' # fvars
            => /\ state' = (IF fop = "go" THEN "Thinking" ELSE "Initialized")
               /\ fpc' = "idle"
               /\ result' = "ok"
               /\ written' = written]_vars
    /\ [][fpc = "idle" /\ state' # state
            => fvars' = fvars /\ state' \in {"Initialized", "Ready"}]_vars

\* go_mate returned success on an engine that never was Ready and the phase
\* is Thinking
C21_Witness ==
    /\ fop = "go"
    /\ fpc = "idle"
    /\ result = "ok"
    /\ written = <<(<<"go", "mate", "2", "\n">>)>>
    /\ state = "Thinking"
    /\ ~everReady

waiting == fpc \in {"wait_lock", "wait_check", "wait_sleep"}

NewGameLines == << <<"ucinewgame", "\n">>, <<"isready", "\n">> >>

new_game_returned == fop = "new_game" /\ fpc = "idle"

\* C22: new_game writes "ucinewgame" and leaves the phase, then stores
\* Initialized, then writes "isready" and waits for Ready; it returns
\* success in a poll that finds the phase Ready; when no readyok is applied
\* after the phase was stored, it returns the timeout after RetryLimit polls
\* and the phase is Initialized.
C22_NewGameResynchronizes ==
    /\ [][fpc = "idle" /\ fop' = "new_game" /\ fvars' # fvars
                        /\ result' # "write_error"
            => /\ fpc' = "set_state"
               /\ written' = SubSeq(NewGameLines, 1, 1)
               /\ state' = state]_vars
    /\ [][fop = "new_game" /\ fpc = "set_state" /\ fvars' # fvars
            => state' = "Initialized" /\ fpc' = "send_isready"]_vars
    /\ [](fop = "new_game" /\ waiting
            => exp_state = "Ready" /\ written = NewGameLines)
    /\ [][fop = "new_game" /\ fpc # "idle" /\ fpc' = "idle" /\ result' = "ok"
            => /\ fpc = "wait_check"
               /\ state = "Ready"
               /\ written = NewGameLines]_vars
    /\ [](new_game_returned /\ result # "write_error" /\ ack # "readyok"
            => /\ result = "timeout"
               /\ polls = RetryLimit
               /\ state = "Initialized")

\* new_game gave up on a live engine that had been Ready and answered
\* nothing: the phase is left at Initialized
C22_Witness ==
    /\ new_game_returned
    /\ result = "timeout"
    /\ ack = "none"
    /\ state = "Initialized"
    /\ everReady
    /\ engine = "alive"
    /\ rstatus = "running"

\* C23: a call whose first write fails returns the error in the same step:
\* the phase, the evaluation and the options keep their values, nothing is
\* written and no wait is started; go and stop write once only, so a go or
\* stop that returned a write error has left the phase as it was.
C23_FailedWriteChangesNothing ==
    /\ [][fpc = "idle" /\ fvars' # fvars /\ result' = "write_error"
            => /\ shared' = shared
               /\ fpc' = "idle"
               /\ written' = <<>>
               /\ polls' = 0
               /\ engine = "exited"]_vars
    /\ [][fpc = "idle" /\ fvars' # fvars /\ engine = "exited"
                        /\ fop' \notin {"get_evaluation", "get_options"}
            => result' = "write_error"]_vars
    /\ [](fop \in {"go", "stop"} /\ result = "write_error"
            => fpc = "idle" /\ written = <<>>)

\* a go on an engine that has exited returned the error and the phase still
\* is Ready
C23_Witness ==
    /\ fop = "go"
    /\ fpc = "idle"
    /\ result = "write_error"
    /\ engine = "exited"
    /\ state = "Ready"

StartUciLines == << <<"uci", "\n">>, <<"isready", "\n">> >>

\* C24: in a start_uci in which no write fails, "isready" is written only
\* after a poll of the first wait found the phase Initialized: until then,
\* and for good when the first wait times out, the lines written by the call
\* are "uci" alone and no wait for Ready is started; from then on they are
\* "uci", "isready".
C24_IsReadyOnlyAfterInitialized ==
    /\ [][fop = "start_uci" /\ fpc # "send_isready" /\ fpc' = "send_isready"
            => /\ fpc = "wait_check"
               /\ exp_state = "Initialized"
               /\ state = "Initialized"
               /\ written = SubSeq(StartUciLines, 1, 1)]_vars
    /\ [][fop = "start_uci" /\ fpc # "idle" /\ written' # written
            => /\ fpc = "send_isready"
               /\ written' = StartUciLines
               /\ exp_state' = "Ready"]_vars
    /\ [](fop = "start_uci" /\ written # <<>>
            => IF exp_state = "Ready"
               THEN written = StartUciLines
               ELSE written = SubSeq(StartUciLines, 1, 1))
    /\ [](start_uci_returned /\ result = "timeout" /\ exp_state # "Ready"
            => written = SubSeq(StartUciLines, 1, 1) /\ polls = RetryLimit)
    /\ [](start_uci_returned /\ result = "ok" => written = StartUciLines)

\* the first wait timed out with the phase Ready all along its last polls:
\* "isready" was never written
C24_Witness ==
    /\ start_uci_returned
    /\ result = "timeout"
    /\ exp_state = "Initialized"
    /\ written = << <<"uci", "\n">> >>
    /\ state = "Ready"
    /\ ack = "uciok_readyok"

\* C25: the reader's uciok step stores Initialized and its readyok step
\* stores Ready, and both can be taken in every phase, Thinking included;
\* they leave the evaluation and the options.  The steps for an info line
\* leave the phase and the options, the step for an option line leaves the
\* phase and the evaluation, and a line that does not decode leaves all
\* three.
C25_ReaderIsPhaseBlind ==
    /\ [][ReaderUciOk
            => state' = "Initialized" /\ UNCHANGED <<evaluation, options>>]_vars
    /\ [][ReaderReadyOk
            => state' = "Ready" /\ UNCHANGED <<evaluation, options>>]_vars
    /\ [](reads /\ lock_free("state")
            => ENABLED ReaderUciOk /\ ENABLED ReaderReadyOk)
    /\ [][ReaderInfo \/ ReaderInfoStored
            => evaluation' # None /\ UNCHANGED <<state, options>>]_vars
    /\ [][ReaderOption
            => /\ Len(options') = Len(options) + 1
               /\ UNCHANGED <<state, evaluation>>]_vars
    /\ [][ReaderSkip \/ ReaderParsePanic => UNCHANGED shared]_vars
    /\ [][UNCHANGED fvars /\ state' # state
            => /\ state' \in {"Initialized", "Ready"}
               /\ UNCHANGED <<evaluation, options>>]_vars

\* a go returned success, which left the phase Thinking, and the reader has
\* applied a uciok since: the phase is Initialized
C25_Witness ==
    /\ fop = "go"
    /\ fpc = "idle"
    /\ result = "ok"
    /\ state = "Initialized"
    /\ rstatus = "running"

\* C26: no step of a facade operation changes the evaluation or the options;
\* an evaluation, once there, is never none again, and the options list only
\* grows at its end; so a snapshot returned by get_evaluation is followed by
\* snapshots only, and the snapshot of the last search stays until the
\* reader merges the next info line, across stop, new_game and go.
C26_FacadeNeverResets ==
    /\ [][fvars' # fvars => UNCHANGED <<evaluation, options>>]_vars
    /\ [][is_some(evaluation) => is_some(evaluation')]_vars
    /\ [][is_some(whole) /\ is_some(evaluation') /\ evaluation' # evaluation
            => rstatus' # rstatus]_vars
    /\ [][/\ Len(options') >= Len(options)
          /\ SubSeq(options', 1, Len(options)) = options]_vars
    /\ [](get_evaluation_returned /\ is_some(value) => is_some(evaluation))

\* new_game returned success and the evaluation and the options of before
\* are still there
C26_Witness ==
    /\ new_game_returned
    /\ result = "ok"
    /\ state = "Ready"
    /\ evaluation = whole
    /\ is_some(evaluation)
    /\ evaluation[1].pv = <<"d6f4", "e3f4">>
    /\ Len(options) = 2

\* C27: whenever new_game has returned success, the reader has applied a
\* readyok after the set_state(Initialized) of this call, even when the
\* phase was Ready at the call.
C27_NewGameNeedsFreshReadyok ==
    new_game_returned /\ result = "ok" => ack = "readyok"

\* new_game returned success on an engine that was Ready before the call
\* and is still
C27_Witness ==
    /\ new_game_returned
    /\ result = "ok"
    /\ ack = "readyok"
    /\ everReady
    /\ state = "Ready"
    /\ polls = 1

\* C28: whenever start_uci has returned success, the reader has applied a
\* uciok since the "uci" of this call was written (and a readyok after it).
C28_StartBackedByUciok ==
    start_uci_returned /\ result = "ok" => ack \notin {"none", "no_uciok"}

=============================================================================
